---- MODULE Spec2Model ----
(***************************************************************************)
(* Sliceformer: the text-classification encoder (model.py) and the vision  *)
(* transformer (vit.py) as state machines.                                  *)
(*                                                                          *)
(* Tensors are nested sequences (1-based where Python is 0-based; layer     *)
(* indices and positional indices keep Python's values).  Activations are   *)
(* integers: a float operation is modelled by its value rounded to an       *)
(* integer, so Linear and matmul are exact and division rounds down.        *)
(* Attention weights are exact fractions <<num, den>>.                      *)
(***************************************************************************)
EXTENDS Integers, Sequences, FiniteSets, TLC

VARIABLES pc, args, self, heap, frame, calls, ret

vars == <<pc, args, self, heap, frame, calls, ret>>

\* ------------------------------------------------------------------ bounds

\* Longest token sequence / largest image side explored.
MaxLen == 3
\* Largest number of stacked layers explored.
MaxLayers == 2

\* ------------------------------------------------------------- arithmetic

None == "None"

\* A function over 1..n evaluated to a sequence value.
Tab(f) == f \o <<>>

\* F applied to the value of x: a local name bound once to a computed tensor.
With(x, F(_)) == F(x)

Max2(a, b) == IF a >= b THEN a ELSE b

RECURSIVE SumSeq(_)
SumSeq(s) == IF s = <<>> THEN 0 ELSE Head(s) + SumSeq(Tail(s))

RECURSIVE MaxSeq(_)
MaxSeq(s) == IF Len(s) = 1 THEN s[1] ELSE Max2(s[1], MaxSeq(Tail(s)))

RECURSIVE ISqrtFrom(_, _)
ISqrtFrom(n, r) == IF (r + 1) * (r + 1) > n THEN r ELSE ISqrtFrom(n, r + 1)

\* floor(sqrt(n))
ISqrt(n) == ISqrtFrom(n, 0)

Dot(u, v) == SumSeq(Tab([i \in 1..Len(u) |-> u[i] * v[i]]))

\* Initial value of a learned parameter entry (torch's random initialisation):
\* a fixed small pattern in -1..1 that depends on the seed and the position.
Pat(seed, i, j) == ((seed + i + 2 * j) % 3) - 1

\* --------------------------------------------------------- torch.nn modules

AttnModes == {"trans", "sink", "swd"}

\* The selector mutant: a trailing else that falls back to softmax.
BranchElseTrans(attn) == IF attn \in AttnModes THEN attn ELSE "trans"

\* The if / elif / elif chain on self.attn: the branch that runs; there is no
\* else, so any other string runs none.
Branch(attn) == IF attn \in AttnModes THEN attn ELSE "none"

\* A forward call cut short: reading a local no branch has bound raises
\* UnboundLocalError, which nothing on the way up catches.
Unbound == [raised |-> "UnboundLocalError"]

\* nn.Linear(in_features, out_features): weight is (out, in), bias is (out).
nn_Linear(in_features, out_features, bias, seed) ==
    [weight |-> Tab([o \in 1..out_features |-> Tab([i \in 1..in_features |-> Pat(seed, o, i)])]),
     bias   |-> Tab([o \in 1..out_features |-> IF bias THEN Pat(seed, o, 0) ELSE 0])]

\* nn.LayerNorm(dim): weight starts at ones and bias at zeros.
nn_LayerNorm(dim) ==
    [weight |-> Tab([i \in 1..dim |-> 1]), bias |-> Tab([i \in 1..dim |-> 0])]

\* ------------------------------------------------- model.py: constructors

\* ScaledDotProductAttention.__init__
ScaledDotProductAttention_init(d_k, attn) ==
    [d_k |-> d_k, swd |-> "SWD7", attn |-> attn]

\* MultiHeadAttention.__init__: d_k is the floor quotient; nothing checks that
\* n_heads divides d_model.
MultiHeadAttention_init(d_model, n_heads, n_it, print_attention, attn, seed) ==
    LET d_k == d_model \div n_heads IN
    [n_heads |-> n_heads, d_k |-> d_k, d_v |-> d_k,
     WQ |-> nn_Linear(d_model, d_model, TRUE, seed),
     WK |-> nn_Linear(d_model, d_model, TRUE, seed + 1),
     WV |-> nn_Linear(d_model, d_model, TRUE, seed + 2),
     n_it |-> n_it,
     scaled_dot_product_attn |-> ScaledDotProductAttention_init(d_k, attn),
     linear |-> nn_Linear(n_heads * d_k, d_model, TRUE, seed),
     print_attention |-> print_attention]

\* PositionWiseFeedForwardNetwork.__init__
PositionWiseFeedForwardNetwork_init(d_model, d_ff, seed) ==
    [linear1 |-> nn_Linear(d_model, d_ff, TRUE, seed),
     linear2 |-> nn_Linear(d_ff, d_model, TRUE, seed + 1)]

\* EncoderLayer.__init__
EncoderLayer_init(d_model, n_heads, p_drop, d_ff, n_it, print_attention, attn, seed) ==
    [mha |-> MultiHeadAttention_init(d_model, n_heads, n_it, print_attention, attn, seed),
     dropout1 |-> p_drop,
     layernorm1 |-> nn_LayerNorm(d_model),
     ffn |-> PositionWiseFeedForwardNetwork_init(d_model, d_ff, seed),
     dropout2 |-> p_drop,
     layernorm2 |-> nn_LayerNorm(d_model)]

\* sin(pos) and cos(pos) rounded to the nearest integer, pos in 0..7.
RoundSin(pos) == <<0, 1, 1, 0, -1, -1, 0, 1>>[(pos % 8) + 1]
RoundCos(pos) == <<1, 1, 0, -1, -1, 0, 1, 1>>[(pos % 8) + 1]

\* TransformerEncoder.get_sinusoid_table(seq_len, d_model): seq_len rows (row
\* r holds position r - 1).  Columns 0 and 1 have angle pos; from column 2 on
\* the angle pos / 10000^(2(i//2)/d_model) is below 1/2 for every position
\* explored, so sin rounds to 0 and cos to 1.
get_sinusoid_table(seq_len, d_model) ==
    Tab([r \in 1..seq_len |->
        Tab([c \in 1..d_model |->
            LET pos == r - 1
                i == c - 1
            IN IF i % 2 = 0
               THEN (IF i \div 2 = 0 THEN RoundSin(pos) ELSE 0)
               ELSE (IF i \div 2 = 0 THEN RoundCos(pos) ELSE 1)])])

\* The state a constructor works on: the object, the tensors it owns, locals.
EmptyHeap == [n \in {} |-> 0]
NewObject(cls) == [self |-> [cls |-> cls, modules |-> <<>>], heap |-> EmptyHeap,
                   frame |-> [n \in {} |-> 0]]

\* TransformerEncoder.__init__, lines 150-152
TransformerEncoder_init_table(c, a) ==
    [c EXCEPT !.self = c.self @@ [pad_id |-> a.pad_id],
              !.heap = c.heap @@ [sinusoid_table |-> get_sinusoid_table(a.seq_len + 1, a.d_model)]]

\* TransformerEncoder.__init__, lines 155-156
TransformerEncoder_init_embed(c, a) ==
    [c EXCEPT !.self = [c.self EXCEPT !.modules = @ \o <<"embedding", "pos_embedding">>],
              !.heap = c.heap @@
                  [embedding |-> Tab([t \in 1..a.vocab_size |-> Tab([j \in 1..a.d_model |-> Pat(a.seed, t, j)])]),
                   pos_embedding |-> c.heap.sinusoid_table,
                   layers |-> <<>>]]

\* TransformerEncoder.__init__, lines 157-158: one EncoderLayer of the list.
TransformerEncoder_init_layer(c, a) ==
    [c EXCEPT !.heap = [c.heap EXCEPT !.layers = Append(@,
          EncoderLayer_init(a.d_model, a.n_heads, a.p_drop, a.d_ff, a.n_it,
                            a.print_attention, a.attn, a.seed + Len(c.heap.layers)))]]

\* TransformerEncoder.__init__, lines 160-163
TransformerEncoder_init_head(c, a) ==
    [c EXCEPT !.self = [c.self EXCEPT !.modules = @ \o <<"layers", "linear", "softmax", "dropout">>]
                       @@ [d_model |-> a.d_model],
              !.heap = c.heap @@ [linear |-> nn_Linear(a.d_model, 2, TRUE, a.seed)]]

RECURSIVE TransformerEncoder_layers(_, _)
TransformerEncoder_layers(c, a) ==
    IF Len(c.heap.layers) >= a.n_layers THEN c
    ELSE TransformerEncoder_layers(TransformerEncoder_init_layer(c, a), a)

\* TransformerEncoder(...): the whole constructor.
TransformerEncoder_new(a) ==
    TransformerEncoder_init_head(
        TransformerEncoder_layers(
            TransformerEncoder_init_embed(
                TransformerEncoder_init_table(NewObject("TransformerEncoder"), a), a), a), a)

\* ---------------------------------------------------- vit.py: constructors

\* A Python value that is an int (held as <<t>>) or a tuple of two ints.
IntArg(t) == [tuple |-> FALSE, v |-> <<t>>]
TupleArg(h, w) == [tuple |-> TRUE, v |-> <<h, w>>]

\* pair(t)
pair(t) == IF t.tuple THEN t.v ELSE <<t.v[1], t.v[1]>>

\* Attention.__init__
Attention_init(dim, heads, dim_head, dropout, max_iter, eps, attn, seed) ==
    LET inner_dim == dim_head * heads
        project_out == ~(heads = 1 /\ dim_head = dim)
    IN [heads |-> heads, dim_head |-> dim_head, max_iter |-> max_iter, swd |-> "SWD7",
        sink |-> [eps |-> eps, max_iter |-> max_iter],
        dropout |-> dropout,
        to_qkv |-> nn_Linear(dim, inner_dim * 3, FALSE, seed),
        project_out |-> project_out,
        to_out |-> IF project_out THEN nn_Linear(inner_dim, dim, TRUE, seed + 1) ELSE "Identity",
        attn |-> attn]

\* FeedForward.__init__
FeedForward_init(dim, hidden_dim, dropout, seed) ==
    [linear1 |-> nn_Linear(dim, hidden_dim, TRUE, seed),
     linear2 |-> nn_Linear(hidden_dim, dim, TRUE, seed + 1),
     dropout |-> dropout]

\* Transformer.__init__: depth pairs (PreNorm(Attention), PreNorm(FeedForward)).
Transformer_init(dim, depth, heads, dim_head, mlp_dim, dropout, max_iter, eps, attn, seed) ==
    Tab([l \in 1..depth |->
        [norm1 |-> nn_LayerNorm(dim),
         attn  |-> Attention_init(dim, heads, dim_head, dropout, max_iter, eps, attn, seed + l - 1),
         norm2 |-> nn_LayerNorm(dim),
         ff    |-> FeedForward_init(dim, mlp_dim, dropout, seed + l - 1)]])

\* Transformer_only_Att.__init__: the same pairs, attn left at its default.
Transformer_only_Att_init(dim, depth, heads, dim_head, mlp_dim, dropout, max_iter, eps, seed) ==
    Transformer_init(dim, depth, heads, dim_head, mlp_dim, dropout, max_iter, eps, "trans", seed)

\* The divisibility mutant: `or` where the code has `and`.
DivisibleEither(image_height, image_width, patch_height, patch_width) ==
    image_height % patch_height = 0 \/ image_width % patch_width = 0

\* ViT.__init__ line 135 / ViT_only_Att.__init__ line 190: the assert's condition.
Divisible(image_height, image_width, patch_height, patch_width) ==
    image_height % patch_height = 0 /\ image_width % patch_width = 0

\* lines 131-133 / 186-188: super().__init__() and the two pair() calls.
ViT_init_sizes(c, a) ==
    [c EXCEPT !.frame = [image_height |-> pair(a.image_size)[1],
                         image_width  |-> pair(a.image_size)[2],
                         patch_height |-> pair(a.patch_size)[1],
                         patch_width  |-> pair(a.patch_size)[2]]]

\* line 135 / 190: whether the first assert passes.
ViT_init_assert_ok(c) ==
    Divisible(c.frame.image_height, c.frame.image_width,
              c.frame.patch_height, c.frame.patch_width)

\* lines 137-138 / 192-193
ViT_init_count(c, a) ==
    [c EXCEPT !.frame = c.frame @@
        [num_patches |-> (c.frame.image_height \div c.frame.patch_height)
                         * (c.frame.image_width \div c.frame.patch_width),
         patch_dim   |-> a.channels * c.frame.patch_height * c.frame.patch_width]]

\* line 139 / 194: whether the second assert passes.
ViT_init_pool_ok(a) == a.pool \in {"cls", "mean"}

\* lines 141-148 / 196-203: patch embedding, positional table, class token.
ViT_init_embed(c, a) ==
    [c EXCEPT !.self = [c.self EXCEPT !.modules = @ \o
                           <<"to_patch_embedding", "pos_embedding", "cls_token", "dropout">>]
                       @@ [patch_height |-> c.frame.patch_height,
                           patch_width |-> c.frame.patch_width],
              !.heap = c.heap @@
                  [to_patch_embedding |-> nn_Linear(c.frame.patch_dim, a.dim, TRUE, a.seed),
                   pos_embedding |-> <<Tab([p \in 1..(c.frame.num_patches + 1) |->
                                          Tab([j \in 1..a.dim |-> Pat(a.seed, p, j)])])>>,
                   cls_token |-> <<<<Tab([j \in 1..a.dim |-> Pat(a.seed + 1, 1, j)])>>>>]]

\* line 150 / 205
ViT_init_transformer(c, a) ==
    [c EXCEPT !.self = [c.self EXCEPT !.modules = Append(@, "transformer")],
              !.heap = c.heap @@
                  [layers |-> IF a.cls = "ViT"
                              THEN Transformer_init(a.dim, a.depth, a.heads, a.dim_head, a.mlp_dim,
                                                    a.dropout, a.max_iter, a.eps, a.attn, a.seed)
                              ELSE Transformer_only_Att_init(a.dim, a.depth, a.heads, a.dim_head,
                                                    a.mlp_dim, a.dropout, a.max_iter, a.eps, a.seed)]]

\* lines 152-158 / 207-213
ViT_init_head(c, a) ==
    [c EXCEPT !.self = [c.self EXCEPT !.modules = @ \o <<"to_latent", "mlp_head">>]
                       @@ [pool |-> a.pool],
              !.heap = c.heap @@
                  [mlp_head |-> [norm |-> nn_LayerNorm(a.dim),
                                 linear |-> nn_Linear(a.dim, a.num_classes, TRUE, a.seed)]]]

\* ViT(...) for arguments that pass both asserts.
ViT_new(a) ==
    ViT_init_head(ViT_init_transformer(ViT_init_embed(
        ViT_init_count(ViT_init_sizes(NewObject(a.cls), a), a), a), a), a)

\* ------------------------------------------------------------ tensor ops

RECURSIVE Concat(_)
\* The sequences of a sequence, joined in order.
Concat(ss) == IF ss = <<>> THEN <<>> ELSE Head(ss) \o Concat(Tail(ss))

\* Row-major element lists of contiguous tensors of 2, 3 and 4 dimensions.
Flat2(t) == Concat(t)
Flat3(t) == Concat(Tab([i \in 1..Len(t) |-> Flat2(t[i])]))
Flat4(t) == Concat(Tab([i \in 1..Len(t) |-> Flat3(t[i])]))

Shape4(t) == <<Len(t), Len(t[1]), Len(t[1][1]), Len(t[1][1][1])>>

\* Tensor.view of a row-major element list to the given sizes.
Reshape2(flat, n1, n2) ==
    Tab([i \in 1..n1 |-> Tab([j \in 1..n2 |-> flat[(i - 1) * n2 + j]])])
Reshape3(flat, n1, n2, n3) ==
    Tab([i \in 1..n1 |-> Reshape2(SubSeq(flat, (i - 1) * n2 * n3 + 1, i * n2 * n3), n2, n3)])
Reshape4(flat, n1, n2, n3, n4) ==
    Tab([i \in 1..n1 |->
        Reshape3(SubSeq(flat, (i - 1) * n2 * n3 * n4 + 1, i * n2 * n3 * n4), n2, n3, n4)])

\* t.view(-1, n2, n3) of a 4-D tensor: the mutant groups by the wrong stride.
ViewFlat3Strided(t, n2, n3) ==
    LET flat == Flat4(t)
        n1 == Len(flat) \div (n2 * n3)
    IN Tab([i \in 1..n1 |-> Reshape2(SubSeq(flat, (n1 - i) * n2 * n3 + 1, (n1 - i + 1) * n2 * n3), n2, n3)])

\* t.view(-1, n2, n3) of a contiguous 4-D tensor.
ViewFlat3(t, n2, n3) ==
    LET flat == Flat4(t) IN Reshape3(flat, Len(flat) \div (n2 * n3), n2, n3)

\* t.view(shape) of a contiguous 3-D tensor to four dimensions.
View4(t, shape) == Reshape4(Flat3(t), shape[1], shape[2], shape[3], shape[4])

\* t.transpose(1, 2) of a 4-D tensor.
Transpose12(t) ==
    Tab([b \in 1..Len(t) |-> Tab([h \in 1..Len(t[1][1]) |-> Tab([i \in 1..Len(t[b]) |-> t[b][i][h]])])])

\* nn.Linear applied to one vector.
LinearVec(lin, x) ==
    Tab([o \in 1..Len(lin.weight) |-> Dot(lin.weight[o], x) + lin.bias[o]])

\* nn.Linear applied along the last dimension of a (batch, seq, features) tensor.
Linear3(lin, x) == Tab([b \in 1..Len(x) |-> Tab([i \in 1..Len(x[b]) |-> LinearVec(lin, x[b][i])])])

\* Elementwise sum of two (batch, seq, features) tensors.
Add3(x, y) ==
    Tab([b \in 1..Len(x) |-> Tab([i \in 1..Len(x[b]) |-> Tab([c \in 1..Len(x[b][i]) |-> x[b][i][c] + y[b][i][c]])])])

Abs(n) == IF n < 0 THEN -n ELSE n

\* nn.LayerNorm on one vector: (x - mean) / sqrt(var + eps), scaled and shifted;
\* (x_c - mean)/std = (D x_c - S) / sqrt(D * sum(x^2) - S^2), rounded to nearest.
LayerNormVec(ln, x) ==
    LET D == Len(x)
        S == SumSeq(x)
        r == ISqrt(D * Dot(x, x) - S * S)
    IN Tab([c \in 1..D |->
           LET num == D * x[c] - S
               y == IF r = 0 THEN 0
                    ELSE (IF num < 0 THEN -1 ELSE 1) * ((2 * Abs(num) + r) \div (2 * r))
           IN y * ln.weight[c] + ln.bias[c]])

LayerNorm3(ln, x) == Tab([b \in 1..Len(x) |-> Tab([i \in 1..Len(x[b]) |-> LayerNormVec(ln, x[b][i])])])

\* nn.ReLU; nn.GELU rounded to the nearest integer is the same function.
ReLU(v) == Tab([c \in 1..Len(v) |-> Max2(v[c], 0)])

\* exp(d) for d <= 0 in units of 2^-8, with float underflow: anything far
\* below the row maximum is exactly 0.
Exp(d) == IF d < -8 THEN 0 ELSE 2 ^ (8 + d)

\* nn.Softmax(dim=-1) on one row: exp(x - max) over its sum, as fractions that
\* share the row's denominator.
SoftmaxRow(row) ==
    LET m == MaxSeq(row)
        e == Tab([j \in 1..Len(row) |-> Exp(row[j] - m)])
    IN Tab([j \in 1..Len(row) |-> <<e[j], SumSeq(e)>>])

Softmax4(t) ==
    Tab([b \in 1..Len(t) |-> Tab([h \in 1..Len(t[b]) |-> Tab([i \in 1..Len(t[b][h]) |-> SoftmaxRow(t[b][h][i])])])])

\* The rescaling mutant: the weights are left as normalized.
Scale4Dropped(t, k) == t

\* A tensor of fractions times an integer.
Scale4(t, k) ==
    Tab([b \in 1..Len(t) |-> Tab([h \in 1..Len(t[b]) |-> Tab([i \in 1..Len(t[b][h]) |->
        Tab([j \in 1..Len(t[b][h][i]) |-> <<t[b][h][i][j][1] * k, t[b][h][i][j][2]>>])])])])

\* torch.matmul(q, k.transpose(-1, -2)) for (batch, heads, len, d) tensors.
MatmulQK(q, k) ==
    Tab([b \in 1..Len(q) |-> Tab([h \in 1..Len(q[b]) |-> Tab([i \in 1..Len(q[b][h]) |->
        Tab([j \in 1..Len(k[b][h]) |-> Dot(q[b][h][i], k[b][h][j])])])])])

\* torch.matmul(weights, v): weights are fractions (one denominator per row),
\* the result is rounded down to an integer activation.
MatmulWV(w, v) ==
    Tab([b \in 1..Len(w) |-> Tab([h \in 1..Len(w[b]) |-> Tab([i \in 1..Len(w[b][h]) |->
        Tab([c \in 1..Len(v[b][h][1]) |->
            SumSeq(Tab([j \in 1..Len(w[b][h][i]) |-> w[b][h][i][j][1] * v[b][h][j][c]]))
                \div w[b][h][i][1][2]])])])])

\* Division of every score by sqrt(d), the square root rounded down.
DivSqrt(t, d) ==
    Tab([b \in 1..Len(t) |-> Tab([h \in 1..Len(t[b]) |-> Tab([i \in 1..Len(t[b][h]) |->
        Tab([j \in 1..Len(t[b][h][i]) |-> t[b][h][i][j] \div ISqrt(d)])])])])

\* The value attn_score.masked_fill_(attn_mask, value) leaves in attn_score.
MaskedFill4(t, mask, value) ==
    Tab([b \in 1..Len(t) |-> Tab([h \in 1..Len(t[b]) |-> Tab([i \in 1..Len(t[b][h]) |->
        Tab([j \in 1..Len(t[b][h][i]) |-> IF mask[b][h][i][j] THEN value ELSE t[b][h][i][j]])])])])

\* ---------------------------------------------------- external transforms

\* One Sinkhorn iteration on one (q_len, k_len) score matrix between uniform
\* marginals: the rows are normalized (softmax of the scores, mass 1/q_len
\* each), then the columns (mass 1/k_len each); a column that holds no mass
\* has nothing to rescale.  Weights are fractions over 1024.
SinkhornStep(m) ==
    With(Tab([i \in 1..Len(m) |-> SoftmaxRow(m[i])]), LAMBDA soft :
    With(Tab([i \in 1..Len(m) |-> Tab([j \in 1..Len(m[i]) |->
             (soft[i][j][1] * 1024) \div (soft[i][j][2] * Len(m))])]), LAMBDA rows :
    With(Tab([j \in 1..Len(m[1]) |-> SumSeq(Tab([i \in 1..Len(m) |-> rows[i][j]]))]), LAMBDA col :
        Tab([i \in 1..Len(m) |-> Tab([j \in 1..Len(m[i]) |->
            <<IF col[j] = 0 THEN 0 ELSE (rows[i][j] * 1024) \div (Len(m[1]) * col[j]), 1024>>])]))))

\* SinkhornDistance(eps, max_iter)(scores)[0] for max_iter = 1, the default of
\* both constructors: a single Sinkhorn step on every matrix of the batch.
\* The result has the shape of its argument.
SinkhornDistance_forward(c) == Tab([n \in 1..Len(c) |-> SinkhornStep(c[n])])

\* SWD7()(q, k, v[, attn_mask], stage): the sort-based transform.  Only its
\* contract is known: an output shaped like q with v's feature size and a
\* weight tensor (batch, heads, q_len, k_len).  Each query row selects one
\* key; which one is left open (choice).
SWD7_forward(q, k, v, attn_mask, stage, choice) ==
    LET w == Tab([b \in 1..Len(q) |-> Tab([h \in 1..Len(q[b]) |-> Tab([i \in 1..Len(q[b][h]) |->
                 Tab([j \in 1..Len(k[b][h]) |->
                     <<IF ((i + choice) % Len(k[b][h])) + 1 = j THEN 1 ELSE 0, 1>>])])])])
    IN [output |-> MatmulWV(w, v), attn_weights |-> w]

SWDChoices == {0, 1}

\* --------------------------------------------- model.py: attention forward

Scale3(t, k) ==
    Tab([n \in 1..Len(t) |-> Tab([i \in 1..Len(t[n]) |->
        Tab([j \in 1..Len(t[n][i]) |-> <<t[n][i][j][1] * k, t[n][i][j][2]>>])])])

\* The value of the padding sentinel written into masked scores.
NegFill == -1000000000

\* ScaledDotProductAttention.forward, lines 21-22 and 27-28: the scores after
\* the in-place mask fill.
SDPA_scores(sdpa, q, k, attn_mask) ==
    MaskedFill4(DivSqrt(MatmulQK(q, k), sdpa.d_k), attn_mask, NegFill)

\* ScaledDotProductAttention.forward: output, attn_weights and the
\* intermediate tensors of the branch taken (None where the branch has none).
SDPA_forward(sdpa, q, k, v, attn_mask, n_it, stage, choice) ==
    With(Branch(sdpa.attn), LAMBDA branch :
    IF branch = "trans" THEN
        With(SDPA_scores(sdpa, q, k, attn_mask), LAMBDA attn_score :
        With(Softmax4(attn_score), LAMBDA soft :
        With(Scale4(soft, Len(soft[1][1][1])), LAMBDA attn_weights :
            [output |-> MatmulWV(attn_weights, v), attn_weights |-> attn_weights,
             attn_score |-> attn_score, flat |-> None, mask_used |-> TRUE, raised |-> None])))
    ELSE IF branch = "sink" THEN
        With(SDPA_scores(sdpa, q, k, attn_mask), LAMBDA attn_score :
        With(Shape4(attn_score), LAMBDA attn_score_shape :
        With(ViewFlat3(attn_score, attn_score_shape[3], attn_score_shape[4]), LAMBDA flat :
        With(SinkhornDistance_forward(flat), LAMBDA pi :
        With(View4(Scale3(pi, Len(pi[1][1])), attn_score_shape), LAMBDA attn_weights :
            [output |-> MatmulWV(attn_weights, v), attn_weights |-> attn_weights,
             attn_score |-> attn_score, flat |-> flat, mask_used |-> TRUE, raised |-> None])))))
    ELSE IF branch = "swd" THEN
        With(SWD7_forward(q, k, v, attn_mask, stage, choice), LAMBDA r :
            [output |-> r.output, attn_weights |-> r.attn_weights,
             attn_score |-> None, flat |-> None, mask_used |-> FALSE, raised |-> None])
    ELSE Unbound)

\* x.view(batch_size, -1, n_heads, d_k).transpose(1, 2), lines 62-64
SplitHeads(x, n_heads, d_k) ==
    Transpose12(Tab([b \in 1..Len(x) |->
        LET flat == Flat2(x[b])
        IN Reshape3(flat, Len(flat) \div (n_heads * d_k), n_heads, d_k)]))

\* attn.transpose(1, 2).contiguous().view(batch_size, -1, n_heads * d_v), line 75
MergeHeads(t, n_heads, d_v) ==
    LET u == Transpose12(t)
    IN Tab([b \in 1..Len(u) |->
           LET flat == Flat3(u[b])
           IN Reshape2(flat, Len(flat) \div (n_heads * d_v), n_heads * d_v)])

\* attn_mask.unsqueeze(1).repeat(1, n_heads, 1, 1): a mutant that hands the
\* mask to the first head only.
RepeatHeadsFirstOnly(attn_mask, n_heads) ==
    Tab([b \in 1..Len(attn_mask) |-> Tab([h \in 1..n_heads |->
        Tab([i \in 1..Len(attn_mask[b]) |-> Tab([j \in 1..Len(attn_mask[b][i]) |->
            h = 1 /\ attn_mask[b][i][j]])])])])

\* attn_mask.unsqueeze(1).repeat(1, self.n_heads, 1, 1), line 67
RepeatHeads(attn_mask, n_heads) ==
    Tab([b \in 1..Len(attn_mask) |-> Tab([h \in 1..n_heads |-> attn_mask[b]])])

\* MultiHeadAttention.forward
MultiHeadAttention_forward(mha, Q, K, V, attn_mask, stage, choice) ==
    With(SplitHeads(Linear3(mha.WQ, Q), mha.n_heads, mha.d_k), LAMBDA q_heads :
    With(SplitHeads(Linear3(mha.WK, K), mha.n_heads, mha.d_k), LAMBDA k_heads :
    With(SplitHeads(Linear3(mha.WV, V), mha.n_heads, mha.d_v), LAMBDA v_heads :
    With(RepeatHeads(attn_mask, mha.n_heads), LAMBDA mask4 :
    With(SDPA_forward(mha.scaled_dot_product_attn, q_heads, k_heads, v_heads,
                      mask4, mha.n_it, stage, choice), LAMBDA r :
    IF r.raised # None THEN r ELSE
    With(MergeHeads(r.output, mha.n_heads, mha.d_v), LAMBDA attn :
        [output |-> Linear3(mha.linear, attn), attn_weights |-> r.attn_weights,
         attn_score |-> r.attn_score, attn_mask |-> mask4, mask_used |-> r.mask_used,
         stage |-> stage, head_output |-> r.output, raised |-> None]))))))

\* PositionWiseFeedForwardNetwork.forward
PositionWiseFeedForwardNetwork_forward(ffn, inputs) ==
    Tab([b \in 1..Len(inputs) |-> Tab([i \in 1..Len(inputs[b]) |->
        LinearVec(ffn.linear2, ReLU(LinearVec(ffn.linear1, inputs[b][i])))])])

\* EncoderLayer.forward; both dropouts have rate 0 and are the identity.
EncoderLayer_forward(layer, inputs, attn_mask, stage, choice) ==
    With(MultiHeadAttention_forward(layer.mha, inputs, inputs, inputs, attn_mask, stage, choice),
         LAMBDA m :
    IF m.raised # None THEN m ELSE
    With(LayerNorm3(layer.layernorm1, Add3(inputs, m.output)), LAMBDA attn_outputs :
    With(LayerNorm3(layer.layernorm2,
             Add3(attn_outputs, PositionWiseFeedForwardNetwork_forward(layer.ffn, attn_outputs))),
         LAMBDA ffn_outputs :
        [outputs |-> ffn_outputs, attn_weights |-> m.attn_weights, mha |-> m,
         raised |-> None])))

\* TransformerEncoder.get_attention_padding_mask
get_attention_padding_mask(q, k, pad_id) ==
    Tab([b \in 1..Len(k) |-> Tab([i \in 1..Len(q[b]) |-> Tab([j \in 1..Len(k[b]) |-> k[b][j] = pad_id])])])

\* ------------------------------------------------------ construction runs

VitClasses == {"ViT", "ViT_only_Att"}

\* Constructor calls of the text model; (d_model, n_heads) = (10, 3) is among them.
TextCtorArgs ==
    [cls : {"TransformerEncoder"}, vocab_size : {3}, seq_len : {MaxLen},
     d_model : {2, 3, 4, 10}, n_layers : 1..MaxLayers, n_heads : 1..3,
     p_drop : {0}, d_ff : {2}, pad_id : {0}, n_it : {1},
     print_attention : {FALSE}, attn : AttnModes, seed : {0}]

ImageSizes == {IntArg(t) : t \in 1..(MaxLen + 1)} \cup {IntArg(30)}
                 \cup {TupleArg(4, 2), TupleArg(3, 4), TupleArg(2, 2)}
PatchSizes == {IntArg(t) : t \in 1..MaxLen} \cup {IntArg(7)}
                 \cup {TupleArg(2, 1), TupleArg(1, 2), TupleArg(2, 2)}

\* Constructor calls of the two vision models; (30, 7) is among them.
VitCtorArgs ==
    [cls : VitClasses, image_size : ImageSizes, patch_size : PatchSizes,
     num_classes : {2}, dim : {2}, depth : 1..MaxLayers, heads : {1, 2}, mlp_dim : {2},
     pool : {"cls", "mean", "max"}, channels : {1}, dim_head : {1},
     dropout : {0}, emb_dropout : {0}, max_iter : {1}, eps : {1},
     attn : {"trans"}, seed : {0}]

NoObject == [cls |-> None, modules |-> <<>>]
NoFrame == [n \in {} |-> 0]

InitCtor ==
    /\ pc = "call"
    /\ args \in TextCtorArgs \cup VitCtorArgs
    /\ self = NoObject
    /\ heap = EmptyHeap
    /\ frame = NoFrame
    /\ calls = <<>>
    /\ ret = None

Cur == [self |-> self, heap |-> heap, frame |-> frame]

Become(c) == /\ self' = c.self
             /\ heap' = c.heap
             /\ frame' = c.frame

EncInitTable ==
    /\ pc = "call" /\ args.cls = "TransformerEncoder"
    /\ Become(TransformerEncoder_init_table(NewObject(args.cls), args))
    /\ pc' = "enc_embed"
    /\ UNCHANGED <<args, calls, ret>>

EncInitEmbed ==
    /\ pc = "enc_embed"
    /\ Become(TransformerEncoder_init_embed(Cur, args))
    /\ pc' = "enc_layers"
    /\ UNCHANGED <<args, calls, ret>>

EncInitLayer ==
    /\ pc = "enc_layers" /\ Len(heap.layers) < args.n_layers
    /\ Become(TransformerEncoder_init_layer(Cur, args))
    /\ UNCHANGED <<pc, args, calls, ret>>

EncInitHead ==
    /\ pc = "enc_layers" /\ Len(heap.layers) >= args.n_layers
    /\ Become(TransformerEncoder_init_head(Cur, args))
    /\ pc' = "returned"
    /\ ret' = "model"
    /\ UNCHANGED <<args, calls>>

Raise(e) == /\ pc' = "raised"
            /\ ret' = e
            /\ UNCHANGED <<args, self, heap, frame, calls>>

ViTInitSizes ==
    /\ pc = "call" /\ args.cls \in VitClasses
    /\ Become(ViT_init_sizes(NewObject(args.cls), args))
    /\ pc' = "vit_assert"
    /\ UNCHANGED <<args, calls, ret>>

ViTInitAssert ==
    /\ pc = "vit_assert"
    /\ IF ViT_init_assert_ok(Cur)
       THEN pc' = "vit_count" /\ UNCHANGED <<args, self, heap, frame, calls, ret>>
       ELSE Raise("AssertionError")

ViTInitCount ==
    /\ pc = "vit_count"
    /\ IF ViT_init_pool_ok(args)
       THEN /\ Become(ViT_init_count(Cur, args))
            /\ pc' = "vit_embed"
            /\ UNCHANGED <<args, calls, ret>>
       ELSE Raise("AssertionError")

ViTInitEmbed ==
    /\ pc = "vit_embed"
    /\ Become(ViT_init_embed(Cur, args))
    /\ pc' = "vit_transformer"
    /\ UNCHANGED <<args, calls, ret>>

ViTInitTransformer ==
    /\ pc = "vit_transformer"
    /\ Become(ViT_init_transformer(Cur, args))
    /\ pc' = "vit_head"
    /\ UNCHANGED <<args, calls, ret>>

ViTInitHead ==
    /\ pc = "vit_head"
    /\ Become(ViT_init_head(Cur, args))
    /\ pc' = "returned"
    /\ ret' = "model"
    /\ UNCHANGED <<args, calls>>

NextCtor ==
    \/ EncInitTable \/ EncInitEmbed \/ EncInitLayer \/ EncInitHead
    \/ ViTInitSizes \/ ViTInitAssert \/ ViTInitCount
    \/ ViTInitEmbed \/ ViTInitTransformer \/ ViTInitHead

SpecCtor == InitCtor /\ [][NextCtor]_vars

\* C1: a text model whose d_model is not divisible by n_heads is never
\* returned by the constructor (construction fails instead).
C1_TextCtorFailsFast ==
    (pc = "returned" /\ args.cls = "TransformerEncoder")
        => args.d_model % args.n_heads = 0

\* C2: a vision constructor whose image sides are not both divisible by the
\* patch sides never gets past its assert and ends raised with no sub-module
\* and no parameter created; a failed construction never leaves one behind;
\* and once the positional table exists it has (H/ph)*(W/pw) + 1 slots, the
\* quotients being exact.
C2_PatchDivisibility ==
    args.cls \in VitClasses =>
        LET ih == pair(args.image_size)[1]
            iw == pair(args.image_size)[2]
            ph == pair(args.patch_size)[1]
            pw == pair(args.patch_size)[2]
        IN /\ ~(ih % ph = 0 /\ iw % pw = 0) =>
                  /\ pc \in {"call", "vit_assert", "raised"}
                  /\ self.modules = <<>>
                  /\ DOMAIN heap = {}
           /\ pc = "raised" => (self.modules = <<>> /\ DOMAIN heap = {})
           /\ "pos_embedding" \in DOMAIN heap =>
                  /\ ih % ph = 0 /\ iw % pw = 0
                  /\ (Len(heap.pos_embedding[1]) - 1) * ph * pw = ih * iw
                  /\ frame.num_patches = Len(heap.pos_embedding[1]) - 1

\* C2 witness: image 30 with patch 7 has been refused.
C2_Witness ==
    /\ pc = "raised" /\ ret = "AssertionError"
    /\ args.cls \in VitClasses
    /\ args.image_size = IntArg(30) /\ args.patch_size = IntArg(7)

\* ------------------------------------------------ model.py: forward call

\* Python's None and a present value.
NoneVal == [is_none |-> TRUE]
Some(v) == [is_none |-> FALSE, v |-> v]

\* A tensor object: its identity (where it was created) and its data.
Tensor(id, data) == [is_none |-> FALSE, id |-> id, data |-> data]

\* t.detach().clone(): a new tensor holding a copy of the data.
DetachClone(t, idx) == Tensor(<<"clone", idx>>, t.data)

\* The capture mutant: every layer's weights replace the captured ones.
ShouldCaptureAlways(attention_weights, attn_weights) == ~attn_weights.is_none

\* model.py line 185, vit.py line 104: capture only while nothing is captured.
ShouldCapture(attention_weights, attn_weights) ==
    attention_weights.is_none /\ ~attn_weights.is_none

\* Writing a heap cell (a new tensor bound to the name, or an in-place update).
Store(h, name, value) ==
    [n \in DOMAIN h \cup {name} |-> IF n = name THEN value ELSE h[n]]

\* The in-place mutant: the fill lands on the caller's tensor.
PositionsFillTargetInputs == "inputs"

\* line 169: positions.masked_fill_ acts on the tensor built at line 167.
PositionsFillTarget == "positions"

\* lines 22 and 28: attn_score.masked_fill_ acts on the fresh score tensor.
ScoreFillTarget == "attn_score"

\* line 182: layer(outputs, attn_pad_mask, stage=stage)
Encoder_layer_stage(stage) == stage

\* The positions mutant: 0-based indices.
PositionsZeroBased(inputs) ==
    Tab([b \in 1..Len(inputs) |-> Tab([i \in 1..Len(inputs[b]) |-> i - 1])])

\* line 167: torch.arange(L).repeat(B, 1) + 1; column i (1-based) holds i.
PositionsInit(inputs) ==
    Tab([b \in 1..Len(inputs) |-> Tab([i \in 1..Len(inputs[b]) |-> i])])

\* inputs.eq(pad_id)
EqPad(inputs, pad_id) ==
    Tab([b \in 1..Len(inputs) |-> Tab([i \in 1..Len(inputs[b]) |-> inputs[b][i] = pad_id])])

MaskedFill2(t, mask, value) ==
    Tab([b \in 1..Len(t) |-> Tab([i \in 1..Len(t[b]) |-> IF mask[b][i] THEN value ELSE t[b][i]])])

\* nn.Embedding lookup: row idx of the table (0-based index).
EmbeddingLookup(table, idx) ==
    Tab([b \in 1..Len(idx) |-> Tab([i \in 1..Len(idx[b]) |-> table[idx[b][i] + 1]])])

IndexInRange(table, idx) ==
    \A b \in 1..Len(idx) : \A i \in 1..Len(idx[b]) : idx[b][i] \in 0..(Len(table) - 1)

\* Forward calls of text models: rows of tokens 0 and 1 of every length up to
\* one past the positional table; a batch holds one row, or a row and its
\* reverse.  Either token can be the padding id.
Reverse(s) == Tab([i \in 1..Len(s) |-> s[Len(s) + 1 - i]])
TokenRows == UNION {[1..L -> 0..1] : L \in 1..(MaxLen + 1)}
TextInputs == {<<r>> : r \in TokenRows} \cup {<<r, Reverse(r)>> : r \in TokenRows}
Stages == {"train", "test"}

\* Strings a caller may pass as attn that name none of the three strategies.
OtherModes == {"softmax"}

TextFwdArgs ==
    {a \in [cls : {"TransformerEncoder"}, vocab_size : {3}, seq_len : {MaxLen},
            d_model : {2, 4}, n_layers : 1..MaxLayers, n_heads : {1, 2},
            p_drop : {0}, d_ff : {2}, pad_id : {0, 1}, n_it : {1},
            print_attention : {FALSE}, attn : AttnModes \cup OtherModes, seed : {0}] :
        /\ <<a.d_model, a.n_heads>> \in {<<2, 2>>, <<4, 1>>}
        /\ a.pad_id = 1 => (a.attn = "trans" /\ a.n_layers = 1)
        /\ a.attn \in OtherModes => a.d_model = 2}

InitFrame == [stage |-> None, layer |-> 0, positions |-> None, outputs |-> None,
              attn_pad_mask |-> None, attention_weights |-> NoneVal]

InitText ==
    \E a \in TextFwdArgs, inp \in TextInputs, st \in Stages :
        LET c == TransformerEncoder_new(a) IN
        /\ pc = "enc_forward"
        /\ args = [cls |-> a.cls, attn |-> a.attn, stage |-> st]
        /\ self = c.self
        /\ heap = Store(c.heap, "inputs", inp)
        /\ frame = InitFrame
        /\ calls = <<>>
        /\ ret = None

\* TransformerEncoder.forward, lines 167-169
EncPositions ==
    /\ pc = "enc_forward"
    /\ LET h1 == Store(heap, "positions", PositionsInit(heap.inputs))
           position_pad_mask == EqPad(heap.inputs, self.pad_id)
       IN heap' = Store(h1, PositionsFillTarget,
                        MaskedFill2(h1[PositionsFillTarget], position_pad_mask, 0))
    /\ frame' = [frame EXCEPT !.stage = args.stage, !.positions = "positions"]
    /\ pc' = "enc_embed_fwd"
    /\ UNCHANGED <<args, self, calls, ret>>

\* TransformerEncoder.forward, lines 172-179; an index past the positional
\* table is torch's IndexError.
EncEmbed ==
    /\ pc = "enc_embed_fwd"
    /\ IF IndexInRange(heap.pos_embedding, heap[frame.positions])
       THEN /\ frame' = [frame EXCEPT
                  !.outputs = Add3(EmbeddingLookup(heap.embedding, heap.inputs),
                                   EmbeddingLookup(heap.pos_embedding, heap[frame.positions])),
                  !.attn_pad_mask = get_attention_padding_mask(heap.inputs, heap.inputs, self.pad_id)]
            /\ pc' = "enc_loop"
            /\ UNCHANGED <<args, self, heap, calls, ret>>
       ELSE /\ pc' = "raised"
            /\ ret' = "IndexError"
            /\ UNCHANGED <<args, self, heap, frame, calls>>

\* TransformerEncoder.forward, lines 181-186: one pass of the loop body; an
\* error raised inside the layer ends the call.
EncLayer ==
    /\ pc = "enc_loop" /\ frame.layer < Len(heap.layers)
    /\ \E choice \in (IF args.attn = "swd" THEN SWDChoices ELSE {0}) :
       \E r \in {EncoderLayer_forward(heap.layers[frame.layer + 1], frame.outputs,
                       frame.attn_pad_mask, Encoder_layer_stage(frame.stage), choice)} :
       IF r.raised # None
       THEN /\ pc' = "raised"
            /\ ret' = r.raised
            /\ UNCHANGED <<frame, heap, calls>>
       ELSE
       \E attn_weights \in {Tensor(<<"attn_weights", frame.layer>>, r.attn_weights)} :
           /\ UNCHANGED <<pc, ret>>
           /\ frame' = [frame EXCEPT
                  !.outputs = r.outputs,
                  !.layer = frame.layer + 1,
                  !.attention_weights =
                      IF ShouldCapture(frame.attention_weights, attn_weights)
                      THEN DetachClone(attn_weights, frame.layer) ELSE @]
           /\ heap' = IF r.mha.mask_used
                      THEN Store(heap, ScoreFillTarget, r.mha.attn_score) ELSE heap
           /\ calls' = Append(calls, [layer |-> frame.layer, stage |-> r.mha.stage,
                                      attn_mask |-> Some(r.mha.attn_mask),
                                      mask_used |-> r.mha.mask_used,
                                      attn_weights |-> attn_weights,
                                      attn_score |-> r.mha.attn_score,
                                      output |-> r.mha.head_output,
                                      x |-> frame.outputs, attn_in |-> frame.outputs,
                                      residual |-> frame.outputs])
    /\ UNCHANGED <<args, self>>

\* torch.max(outputs, dim=1): the largest value of every feature over the sequence.
MaxOverSeq(x) ==
    Tab([b \in 1..Len(x) |-> Tab([c \in 1..Len(x[b][1]) |-> MaxSeq(Tab([i \in 1..Len(x[b]) |-> x[b][i][c]]))])])

\* TransformerEncoder.forward, lines 188-193
EncHead ==
    /\ pc = "enc_loop" /\ frame.layer >= Len(heap.layers)
    /\ LET pooled == MaxOverSeq(frame.outputs)
           outputs == Tab([b \in 1..Len(pooled) |-> SoftmaxRow(LinearVec(heap.linear, pooled[b]))])
       IN ret' = [outputs |-> outputs, attention_weights |-> frame.attention_weights]
    /\ pc' = "returned"
    /\ UNCHANGED <<args, self, heap, frame, calls>>

\* ------------------------------------------------- vit.py: forward call

\* Rearrange('b c (h p1) (w p2) -> b (h w) (p1 p2 c)'): token t is patch
\* (hi, wi) in row-major order, element e is pixel (p1i, p2i) of channel ci.
PatchRearrange(img, p1, p2) ==
    LET C == Len(img[1])
        w == Len(img[1][1][1]) \div p2
        h == Len(img[1][1]) \div p1
    IN Tab([b \in 1..Len(img) |-> Tab([t \in 1..(h * w) |-> Tab([e \in 1..(p1 * p2 * C) |->
           LET hi == (t - 1) \div w
               wi == (t - 1) % w
               ci == (e - 1) % C
               p2i == ((e - 1) \div C) % p2
               p1i == ((e - 1) \div C) \div p2
           IN img[b][ci + 1][hi * p1 + p1i + 1][wi * p2 + p2i + 1]])])])

\* repeat(self.cls_token, '() n d -> b n d', b = b) and torch.cat((cls_tokens, x), dim=1)
CatCls(cls_token, x) == Tab([b \in 1..Len(x) |-> cls_token[1] \o x[b]])

\* x + self.pos_embedding[:, :(n + 1)], the table broadcast over the batch.
AddPos(x, pos_embedding) ==
    Tab([b \in 1..Len(x) |-> Tab([i \in 1..Len(x[b]) |-> Tab([c \in 1..Len(x[b][i]) |->
        x[b][i][c] + pos_embedding[1][i][c]])])])

\* chunk number part (1..3) of qkv, rearranged 'b n (h d) -> b h n d'.
ChunkHeads(qkv, part, heads, dim_head) ==
    Tab([b \in 1..Len(qkv) |-> Tab([h \in 1..heads |-> Tab([i \in 1..Len(qkv[b]) |->
        Tab([d \in 1..dim_head |->
            qkv[b][i][(part - 1) * heads * dim_head + (h - 1) * dim_head + d]])])])])

\* rearrange(out, 'b h n d -> b n (h d)')
JoinHeads(out) ==
    Tab([b \in 1..Len(out) |-> Tab([i \in 1..Len(out[b][1]) |->
        Concat(Tab([h \in 1..Len(out[b]) |-> out[b][h][i]]))])])

\* Attention.forward lines 64-78: attn and out of the branch taken; the
\* dropout on the softmax weights has rate 0 and is the identity.
Attention_branch(am, q, k, v, stage, choice) ==
    With(Branch(am.attn), LAMBDA branch :
    IF branch = "trans" THEN
        With(DivSqrt(MatmulQK(q, k), am.dim_head), LAMBDA dots :
        With(Softmax4(dots), LAMBDA attn :
            [out |-> MatmulWV(attn, v), attn |-> attn, dots |-> dots, flat |-> None, raised |-> None]))
    ELSE IF branch = "sink" THEN
        With(DivSqrt(MatmulQK(q, k), am.dim_head), LAMBDA dots :
        With(Shape4(dots), LAMBDA dots_former_shape :
        With(ViewFlat3(dots, dots_former_shape[3], dots_former_shape[4]), LAMBDA flat :
        With(SinkhornDistance_forward(flat), LAMBDA pi :
        With(View4(Scale3(pi, Len(pi[1][1])), dots_former_shape), LAMBDA attn :
            [out |-> MatmulWV(attn, v), attn |-> attn, dots |-> dots, flat |-> flat, raised |-> None])))))
    ELSE IF branch = "swd" THEN
        With(SWD7_forward(q, k, v, None, stage, choice), LAMBDA r :
            [out |-> r.output, attn |-> r.attn_weights, dots |-> None, flat |-> None, raised |-> None])
    ELSE Unbound)

\* Attention.forward
Attention_forward(am, x, stage, choice) ==
    With(Linear3(am.to_qkv, x), LAMBDA qkv :
    With(ChunkHeads(qkv, 1, am.heads, am.dim_head), LAMBDA q :
    With(ChunkHeads(qkv, 2, am.heads, am.dim_head), LAMBDA k :
    With(ChunkHeads(qkv, 3, am.heads, am.dim_head), LAMBDA v :
    With(Attention_branch(am, q, k, v, stage, choice), LAMBDA r :
    IF r.raised # None THEN r ELSE
    With(JoinHeads(r.out), LAMBDA out :
        [output |-> IF am.project_out THEN Linear3(am.to_out, out) ELSE out,
         attn |-> r.attn, dots |-> r.dots, head_output |-> r.out, stage |-> stage,
         raised |-> None]))))))

\* FeedForward.forward: Linear, GELU, Linear (both dropouts have rate 0).
FeedForward_forward(ff, x) ==
    Tab([b \in 1..Len(x) |-> Tab([i \in 1..Len(x[b]) |->
        LinearVec(ff.linear2, ReLU(LinearVec(ff.linear1, x[b][i])))])])

RECURSIVE SortDescList(_)
\* The values of a sequence in descending order.
SortDescList(s) ==
    IF s = <<>> THEN <<>>
    ELSE LET m == MaxSeq(s)
             k == CHOOSE i \in 1..Len(s) : s[i] = m
         IN <<m>> \o SortDescList(SubSeq(s, 1, k - 1) \o SubSeq(s, k + 1, Len(s)))

\* x.sort(dim=-2, descending=True)[0]: every feature channel sorted on its own
\* along the sequence.
SortDesc(x) ==
    Tab([b \in 1..Len(x) |->
        With(Tab([c \in 1..Len(x[b][1]) |-> SortDescList(Tab([i \in 1..Len(x[b]) |-> x[b][i][c]]))]),
             LAMBDA cols :
             Tab([i \in 1..Len(x[b]) |-> Tab([c \in 1..Len(x[b][1]) |-> cols[c][i]])]))])

\* The residual mutant: layer 0 adds the input in its original order.
ResidualUnsorted(idx, x) == x

\* Transformer.forward lines 95-101: what is added to the attention output.
Residual(idx, x) == IF idx = 0 THEN SortDesc(x) ELSE x

\* Transformer.forward lines 95-102: one pass of the loop body.
Transformer_layer(layer, idx, x, stage, choice) ==
    With(LayerNorm3(layer.norm1, x), LAMBDA attn_in :
    With(Attention_forward(layer.attn, attn_in, stage, choice), LAMBDA a :
    IF a.raised # None THEN a ELSE
    With(Residual(idx, x), LAMBDA residual :
    With(Add3(a.output, residual), LAMBDA x1 :
    With(Add3(FeedForward_forward(layer.ff, LayerNorm3(layer.norm2, x1)), x1), LAMBDA x2 :
        [x |-> x2, attn_matrix |-> a.attn, attn |-> a, attn_in |-> attn_in,
         residual |-> residual, raised |-> None])))))

\* line 174: self.transformer(x, stage='train')
ViT_transformer_stage(stage) == "train"

\* line 166: x += ... acts on the tensor torch.cat built at line 165.
PosAddTarget == "x"

\* Forward calls of vision models: one image of one channel with 0/1 pixels,
\* of every size (no taller than wide) of at most MaxLen + 1 pixels, cut into
\* single-pixel patches (and 2 x 2 images also into 1 x 2 patches).
ImageShapes ==
    {hw \in (1..(MaxLen + 1)) \X (1..(MaxLen + 1)) :
        hw[1] <= hw[2] /\ hw[1] * hw[2] <= MaxLen + 1}
Images(hw) == {<<<<Reshape2(px, hw[1], hw[2])>>>> : px \in [1..(hw[1] * hw[2]) -> {0, 1}]}

VitFwdArgs ==
    {a \in [cls : {"ViT"}, image_size : {TupleArg(hw[1], hw[2]) : hw \in ImageShapes},
            patch_size : {IntArg(1), TupleArg(1, 2)},
            num_classes : {2}, dim : {4}, depth : 1..MaxLayers, heads : {1, 2}, mlp_dim : {2},
            pool : {"cls", "mean"}, channels : {1}, dim_head : {1, 4},
            dropout : {0}, emb_dropout : {0}, max_iter : {1}, eps : {1},
            attn : AttnModes \cup OtherModes, seed : {0}] :
        /\ <<a.heads, a.dim_head>> \in {<<1, 4>>, <<2, 1>>}
        /\ a.attn \in OtherModes => a.heads = 2
        /\ a.patch_size = TupleArg(1, 2) => a.image_size = TupleArg(2, 2)
        /\ a.pool = "mean" => (a.depth = 1 /\ a.heads = 1)}

InitVit ==
    \E a \in VitFwdArgs, st \in Stages :
    \E img \in Images(pair(a.image_size)) :
        LET c == ViT_new(a) IN
        /\ pc = "vit_forward"
        /\ args = [cls |-> a.cls, attn |-> a.attn, stage |-> st]
        /\ self = c.self
        /\ heap = Store(c.heap, "img", img)
        /\ frame = InitFrame
        /\ calls = <<>>
        /\ ret = None

\* ViT.forward, lines 161-167 and the call at line 174
VitEmbed ==
    /\ pc = "vit_forward"
    /\ \E h1 \in {Store(heap, "x",
                    CatCls(heap.cls_token,
                           Linear3(heap.to_patch_embedding,
                                   PatchRearrange(heap.img, self.patch_height, self.patch_width))))} :
       \E h2 \in {Store(h1, PosAddTarget, AddPos(h1[PosAddTarget], heap.pos_embedding))} :
           /\ heap' = h2
           /\ frame' = [frame EXCEPT !.stage = ViT_transformer_stage(args.stage),
                                     !.outputs = h2["x"]]
    /\ pc' = "vit_loop"
    /\ UNCHANGED <<args, self, calls, ret>>

\* Transformer.forward, lines 94-105: one pass of the loop body; an error
\* raised inside the layer ends the call.
VitLayer ==
    /\ pc = "vit_loop" /\ frame.layer < Len(heap.layers)
    /\ \E choice \in (IF args.attn = "swd" THEN SWDChoices ELSE {0}) :
       \E r \in {Transformer_layer(heap.layers[frame.layer + 1], frame.layer, frame.outputs,
                                   frame.stage, choice)} :
       IF r.raised # None
       THEN /\ pc' = "raised"
            /\ ret' = r.raised
            /\ UNCHANGED <<frame, calls>>
       ELSE
       \E attn_matrix \in {Tensor(<<"attn_weights", frame.layer>>, r.attn_matrix)} :
           /\ UNCHANGED <<pc, ret>>
           /\ frame' = [frame EXCEPT
                  !.outputs = r.x,
                  !.layer = frame.layer + 1,
                  !.attention_weights =
                      IF ShouldCapture(frame.attention_weights, attn_matrix)
                      THEN DetachClone(attn_matrix, frame.layer) ELSE @]
           /\ calls' = Append(calls, [layer |-> frame.layer, stage |-> r.attn.stage,
                                      attn_mask |-> NoneVal,
                                      mask_used |-> FALSE,
                                      attn_weights |-> attn_matrix,
                                      attn_score |-> r.attn.dots,
                                      output |-> r.attn.head_output,
                                      x |-> frame.outputs, attn_in |-> r.attn_in,
                                      residual |-> r.residual])
    /\ UNCHANGED <<args, self, heap>>

\* x.mean(dim = 1), rounded down.
MeanOverSeq(x) ==
    Tab([b \in 1..Len(x) |-> Tab([c \in 1..Len(x[b][1]) |->
        SumSeq(Tab([i \in 1..Len(x[b]) |-> x[b][i][c]])) \div Len(x[b])])])

\* ViT.forward, lines 177-180
VitHead ==
    /\ pc = "vit_loop" /\ frame.layer >= Len(heap.layers)
    /\ \E x \in {IF self.pool = "mean" THEN MeanOverSeq(frame.outputs)
                 ELSE Tab([b \in 1..Len(frame.outputs) |-> frame.outputs[b][1]])} :
         ret' = [outputs |-> Tab([b \in 1..Len(x) |->
                                 LinearVec(heap.mlp_head.linear,
                                           LayerNormVec(heap.mlp_head.norm, x[b]))]),
                 attention_weights |-> frame.attention_weights]
    /\ pc' = "returned"
    /\ UNCHANGED <<args, self, heap, frame, calls>>

Init == InitText \/ InitVit

Next == \/ EncPositions \/ EncEmbed \/ EncLayer \/ EncHead
        \/ VitEmbed \/ VitLayer \/ VitHead

Spec == Init /\ [][Next]_vars

\* ------------------------------------------- direct attention-transform calls

\* Calls of the two attention transforms on their own: q of q_len rows, k and
\* v of k_len rows, every combination of batch 1..2, heads 1..2, q_len and
\* k_len in 1..MaxLen and head_dim 1..2; the text transform also gets a mask
\* that forbids no key, the first key or the last key.
AttnShapes ==
    [batch : 1..2, heads : 1..2, q_len : 1..MaxLen, k_len : 1..MaxLen, head_dim : 1..2,
     seed : 0..1]

AttnTensor(sh, len, seed) ==
    Tab([b \in 1..sh.batch |-> Tab([h \in 1..sh.heads |-> Tab([i \in 1..len |->
        Tab([c \in 1..sh.head_dim |-> Pat(seed + b + 2 * h, i, c)])])])])

AttnMask(sh, masked) ==
    Tab([b \in 1..sh.batch |-> Tab([h \in 1..sh.heads |-> Tab([i \in 1..sh.q_len |->
        Tab([j \in 1..sh.k_len |-> j \in masked])])])])

InitAttn ==
    \E sh \in AttnShapes, cls \in {"ScaledDotProductAttention", "Attention"},
       attn \in AttnModes, st \in Stages :
    \E masked \in (IF cls = "Attention" THEN {{}} ELSE {{}, {1}, {sh.k_len}}) :
        /\ pc = "attn_call"
        /\ args = [cls |-> cls, attn |-> attn, stage |-> st, shape |-> sh]
        /\ self = IF cls = "Attention"
                  THEN [attn |-> attn, dim_head |-> sh.head_dim, heads |-> sh.heads]
                  ELSE ScaledDotProductAttention_init(sh.head_dim, attn)
        /\ heap = [q |-> AttnTensor(sh, sh.q_len, sh.seed),
                   k |-> AttnTensor(sh, sh.k_len, sh.seed + 1),
                   v |-> AttnTensor(sh, sh.k_len, sh.seed + 2),
                   attn_mask |-> IF cls = "Attention" THEN None ELSE AttnMask(sh, masked)]
        /\ frame = InitFrame
        /\ calls = <<>>
        /\ ret = None

\* ScaledDotProductAttention.forward
SdpaCall ==
    /\ pc = "attn_call" /\ args.cls = "ScaledDotProductAttention"
    /\ \E choice \in (IF args.attn = "swd" THEN SWDChoices ELSE {0}) :
       \E r \in {SDPA_forward(self, heap.q, heap.k, heap.v, heap.attn_mask, 1,
                              args.stage, choice)} :
           /\ ret' = [output |-> r.output, attn_weights |-> r.attn_weights,
                      attn_score |-> r.attn_score]
           /\ heap' = IF r.mask_used THEN Store(heap, ScoreFillTarget, r.attn_score) ELSE heap
    /\ pc' = "attn_returned"
    /\ UNCHANGED <<args, self, frame, calls>>

\* Attention.forward, lines 64-78
AttentionCall ==
    /\ pc = "attn_call" /\ args.cls = "Attention"
    /\ \E choice \in (IF args.attn = "swd" THEN SWDChoices ELSE {0}) :
       \E r \in {Attention_branch(self, heap.q, heap.k, heap.v, args.stage, choice)} :
           ret' = [output |-> r.out, attn_weights |-> r.attn, attn_score |-> r.dots]
    /\ pc' = "attn_returned"
    /\ UNCHANGED <<args, self, heap, frame, calls>>

NextAttn == SdpaCall \/ AttentionCall

SpecAttn == InitAttn /\ [][NextAttn]_vars

\* Every dimension of a 4-D tensor has the given sizes, in every slice.
HasShape4(t, n1, n2, n3, n4) ==
    /\ Len(t) = n1
    /\ \A b \in 1..n1 :
        /\ Len(t[b]) = n2
        /\ \A h \in 1..n2 :
            /\ Len(t[b][h]) = n3
            /\ \A i \in 1..n3 : Len(t[b][h][i]) = n4

\* C5: whatever the mode and the sizes, the attention transform of either
\* variant returns an output of shape (batch, heads, q_len, head_dim) and
\* weights of shape (batch, heads, q_len, k_len); in sink mode the weights of
\* slice (b, h) are k_len times the Sinkhorn step of the scores of that same
\* slice, so the flattening and the reshape put every slice back in place.
C5_ShapesAndSlices ==
    pc = "attn_returned" =>
        /\ HasShape4(ret.output, args.shape.batch, args.shape.heads,
                     args.shape.q_len, args.shape.head_dim)
        /\ HasShape4(ret.attn_weights, args.shape.batch, args.shape.heads,
                     args.shape.q_len, args.shape.k_len)
        /\ args.attn = "sink" =>
              \A b \in 1..args.shape.batch : \A h \in 1..args.shape.heads :
                  ret.attn_weights[b][h] =
                      Scale3(<<SinkhornStep(ret.attn_score[b][h])>>, args.shape.k_len)[1]

\* C5 witness: a sink call with two batches of two heads, q_len and k_len
\* different, whose neighbouring slices differ from one another.
C5_Witness ==
    /\ pc = "attn_returned" /\ args.attn = "sink"
    /\ args.shape.batch = 2 /\ args.shape.heads = 2
    /\ args.shape.q_len # args.shape.k_len
    /\ ret.attn_weights[1][1] # ret.attn_weights[1][2]
    /\ ret.attn_weights[1][2] # ret.attn_weights[2][1]

\* -------------------------------------------------- forward-call properties

\* The calls made so far, by position.
Calls == {calls[n] : n \in 1..Len(calls)}

IsPad(b, j) == heap.inputs[b][j] = self.pad_id

RowNum(row) == SumSeq(Tab([j \in 1..Len(row) |-> row[j][1]]))
RowDen(row) == row[1][2]

C6_FirstLayerWeights ==
    /\ Len(calls) = 0 => frame.attention_weights.is_none
    /\ Len(calls) >= 1 =>
        /\ calls[1].layer = 0
        /\ calls[1].attn_weights.id = <<"attn_weights", 0>>
        /\ frame.attention_weights = Tensor(<<"clone", 0>>, calls[1].attn_weights.data)
        /\ frame.attention_weights.id # calls[1].attn_weights.id
    /\ (pc = "returned" /\ Len(calls) >= 1) => ret.attention_weights = frame.attention_weights

\* C6 witness: a call through two layers whose weights differ has returned.
C6_Witness ==
    /\ pc = "returned" /\ Len(calls) >= 2
    /\ calls[2].attn_weights.data # calls[1].attn_weights.data
    /\ ret.attention_weights.data = calls[1].attn_weights.data

\* Tokens i and j of every batch row exchanged.
SwapTokens(x, i, j) ==
    Tab([b \in 1..Len(x) |-> Tab([n \in 1..Len(x[b]) |->
        x[b][IF n = i THEN j ELSE IF n = j THEN i ELSE n]])])

\* C7: in the vision Transformer every layer computes attention on the
\* normalized input in its original order; layer 0 adds as residual the input
\* with every channel sorted in descending order along the sequence (the same
\* values, rearranged), which is the same for the input with any two tokens
\* exchanged (hence for any permutation); every later layer adds the input as
\* it is, so exchanging two tokens that differ changes its residual.
C7_SortedResidual ==
    args.cls = "ViT" =>
    \A c \in Calls :
        /\ c.attn_in = LayerNorm3(heap.layers[c.layer + 1].norm1, c.x)
        /\ \A b \in 1..Len(c.x) : \A ch \in 1..Len(c.x[b][1]) :
            c.layer = 0 =>
               /\ \A i \in 1..(Len(c.x[b]) - 1) :
                      c.residual[b][i][ch] >= c.residual[b][i + 1][ch]
               /\ \A i \in 1..Len(c.x[b]) :
                      Cardinality({n \in 1..Len(c.x[b]) : c.residual[b][n][ch] = c.x[b][i][ch]})
                          = Cardinality({n \in 1..Len(c.x[b]) : c.x[b][n][ch] = c.x[b][i][ch]})
        /\ \A i \in 1..Len(c.x[1]) : \A j \in (i + 1)..Len(c.x[1]) :
               IF c.layer = 0
               THEN Residual(c.layer, SwapTokens(c.x, i, j)) = c.residual
               ELSE /\ c.residual = c.x
                    /\ Residual(c.layer, SwapTokens(c.x, i, j)) = SwapTokens(c.x, i, j)

\* C7 witness: two layers have run; sorting changed the order of layer 0's
\* input, and layer 1's input holds two tokens that differ.
C7_Witness ==
    /\ args.cls = "ViT" /\ Len(calls) >= 2
    /\ calls[1].residual # calls[1].x
    /\ calls[2].layer = 1
    /\ SwapTokens(calls[2].x, 1, 2) # calls[2].x

\* C8: every attention call of a forward call runs with the stage the caller
\* passed.
C8_StageReachesAttention ==
    \A c \in Calls : c.stage = args.stage

\* C9: once the positions are computed, position i (1-based) of row b holds 0
\* if token (b, i) is the padding id and i otherwise; every index is in 0..L;
\* when L is at most seq_len every index is a row of the (seq_len + 1)-row
\* table and the lookup does not fail.
C9_PositionIndices ==
    (args.cls = "TransformerEncoder" /\ pc # "enc_forward") =>
        /\ \A b \in 1..Len(heap.inputs) :
            /\ Len(heap.positions[b]) = Len(heap.inputs[b])
            /\ \A i \in 1..Len(heap.inputs[b]) :
                /\ heap.positions[b][i] = IF IsPad(b, i) THEN 0 ELSE i
                /\ heap.positions[b][i] \in 0..Len(heap.inputs[b])
        /\ Len(heap.inputs[1]) <= Len(heap.pos_embedding) - 1 =>
            /\ IndexInRange(heap.pos_embedding, heap.positions)
            /\ ~(pc = "raised" /\ ret = "IndexError")

\* C9 witness: an input as long as seq_len with a padding token before a
\* real last token has been embedded.
C9_Witness ==
    /\ args.cls = "TransformerEncoder" /\ pc = "enc_loop"
    /\ Len(heap.inputs[1]) = Len(heap.pos_embedding) - 1
    /\ IsPad(1, 1) /\ ~IsPad(1, Len(heap.inputs[1]))
    /\ heap.positions[1][Len(heap.inputs[1])] = Len(heap.inputs[1])

\* The tensors a forward call creates: positions, the attention scores, and
\* the concatenation of class token and patches.
CreatedInCall == {"positions", "attn_score", "x"}

\* C10: no step of a forward call changes a parameter tensor or the caller's
\* input; only tensors created in the call are written.
C10_ForwardFrame ==
    [][\A n \in DOMAIN heap \ CreatedInCall : n \in DOMAIN heap' /\ heap'[n] = heap[n]]_vars

\* C10 witness: both in-place fills have acted in a text call whose padding
\* id is 1: the position of a padding token was zeroed and its score column
\* set to the sentinel, the token itself still being 1.
C10_Witness ==
    /\ args.cls = "TransformerEncoder" /\ self.pad_id = 1
    /\ pc = "returned" /\ "attn_score" \in DOMAIN heap
    /\ heap.inputs[1][1] = 1 /\ heap.positions[1][1] = 0
    /\ heap.attn_score[1][1][1][1] = NegFill

\* C11: a model built with an attn string that names none of the three
\* strategies keeps that string in every layer as given (construction checks
\* nothing and maps it to nothing); its forward call never completes a layer,
\* logs no attention output or weights, captures none and never returns, and
\* once the first layer has been entered the call has ended in
\* UnboundLocalError.
C11_UnknownModeErrors ==
    args.attn \notin AttnModes =>
        /\ \A l \in 1..Len(heap.layers) :
               IF args.cls = "ViT"
               THEN heap.layers[l].attn.attn = args.attn
               ELSE heap.layers[l].mha.scaled_dot_product_attn.attn = args.attn
        /\ Len(heap.layers) >= 1
        /\ pc # "returned"
        /\ frame.layer = 0
        /\ calls = <<>>
        /\ frame.attention_weights.is_none
        /\ pc \in {"enc_forward", "enc_embed_fwd", "enc_loop", "vit_forward", "vit_loop", "raised"}
        /\ pc = "raised" => ret \in {"UnboundLocalError", "IndexError"}
        /\ (pc = "raised" /\ args.cls = "ViT") => ret = "UnboundLocalError"
        /\ pc # "raised" => ret = None

\* C11 witness: a text call on a model built with attn = "softmax" has got
\* past the embedding and ended in UnboundLocalError in its first layer.
C11_Witness ==
    /\ args.cls = "TransformerEncoder" /\ args.attn = "softmax"
    /\ pc = "raised" /\ ret = "UnboundLocalError"
    /\ "positions" \in DOMAIN heap
    /\ frame.outputs # None

====
